---------------------------- MODULE Spec2Model ----------------------------
(***************************************************************************)
(* Model of music_dl.py: the protected-stream acquisition pipeline.        *)
(*                                                                         *)
(*   fetch_stream_segments   manifest retrieval and parsing                *)
(*   resolve_stream_uri      resolution against the streaming origin       *)
(*   obtain_content_key      license exchange and key selection            *)
(*   download_drm_stream     segment assembly and decryption               *)
(*   find_wvd_device         the search for the device file                *)
(*   main                    the run: metadata, direct attempt, fallback   *)
(*                                                                         *)
(* Text is modelled by TLA+ strings, on which TLC evaluates Len, \o,       *)
(* SubSeq, Head and Tail.                                                  *)
(***************************************************************************)
EXTENDS Naturals, Sequences, FiniteSets, TLC

VARIABLES
    \* one call of fetch_stream_segments
    m_song_id,      \* its argument
    m_resp,         \* what SESSION.get answers: [err, status, text]
    m_out,          \* pending, or the call's outcome
    \* one chain of resolve_stream_uri calls
    r_uri,          \* the argument of the first call
    r_out,          \* the results of the successive calls, oldest first
    \* one call of obtain_content_key
    k_pc,           \* where the call stands
    k_key_id,       \* its argument key_id
    k_resp,         \* pending, or the answer of the license endpoint
    k_log,          \* the calls made on the key system and the license
                    \* endpoint so far: [op, ok], oldest first
    k_keys,         \* what cdm.get_keys yields once the license is parsed
    k_i,            \* the position of the loop over the keys
    content_key,    \* the local content_key: [some, hex], some = FALSE for None
    k_out,          \* pending, or the call's outcome
    \* one call of download_drm_stream
    d_pc,           \* where the call stands
    d_song_id,      \* its argument song_id
    d_key_arg,      \* its argument key_hex as the caller passed it
    key_hex,        \* the local key_hex: the argument, then the normalised key
    segs,           \* pending, or what fetch_stream_segments gave
    enc_file,       \* the temporary file at enc_path: [exists, content]
    d_i,            \* the position of the loop over segs["segment_uris"]
    d_requests,     \* the segment requests made and their answers:
                    \* [url, resp], oldest first
    ffmpeg_runs,    \* the runs of the decryption engine: [key, input, rc]
    dest_file,      \* the output file at dest: "absent", "partial" or "complete"
    d_out,          \* pending, or the call's outcome
    \* the choice of the device file: args.cdm, else find_wvd_device()
    c_cdm,          \* args.cdm: [some, value], some = FALSE for None
    c_fs,           \* the environment and file system the lookup saw
    c_out,          \* pending, or the path chosen: [some, path]
    \* one run of main
    pc,             \* where main stands
    args,           \* args.url and args.key (a [some, value] as args.cdm)
    info,           \* pending, or the metadata: [id]
    mp3_resp,       \* pending, or the answer to the direct request
    mp3_out,        \* pending, or the outcome of try_download_mp3
    mp3_part,       \* the file at dest.with_suffix(".mp3.part")
    mp3_dest,       \* the file at mp3_dest
    report,         \* pending, or what the key guidance printed
    fatal,          \* the condition that ended the run, "" if none
    exit_status     \* "running", or the exit status of the process

manifestVars == <<m_song_id, m_resp, m_out>>
resolveVars == <<r_uri, r_out>>
keyVars == <<k_pc, k_key_id, k_resp, k_log, k_keys, k_i, content_key, k_out>>
streamVars == <<d_pc, d_song_id, d_key_arg, key_hex, segs, enc_file, d_i,
                d_requests, ffmpeg_runs, dest_file, d_out>>
credVars == <<c_cdm, c_fs, c_out>>
mainVars == <<pc, args, info, mp3_resp, mp3_out, mp3_part, mp3_dest, report,
              fatal, exit_status>>
vars == <<manifestVars, resolveVars, keyVars, streamVars, credVars, mainVars>>

(***************************************************************************)
(* Python's str operations.                                                *)
(***************************************************************************)

\* s[i] as a one-character string (i counted from 1)
At(s, i) == SubSeq(s, i, i)

\* the set of characters of s
Chars(s) == {At(s, i) : i \in 1..Len(s)}

\* str.startswith
StartsWith(s, p) == Len(s) >= Len(p) /\ SubSeq(s, 1, Len(p)) = p

\* the characters str.strip() removes
IsSpace(c) == c \in {" ", "\t", "\n", "\r", "\f"}

UpperCase == "ABCDEFGHIJKLMNOPQRSTUVWXYZ"
LowerCase == "abcdefghijklmnopqrstuvwxyz"
Digits == "0123456789"

\* [0-9a-fA-F]
IsHexChar(c) == c \in Chars("0123456789abcdefABCDEF")
\* [A-Za-z0-9+/=]
IsBase64Char(c) ==
    c \in Chars(UpperCase) \cup Chars(LowerCase) \cup Chars(Digits) \cup {"+", "/", "="}
\* [^"]
IsNotQuote(c) == c # "\""

\* the character classes the scans below run over
InClass(c, class) ==
    CASE class = "space" -> IsSpace(c)
      [] class = "hex" -> IsHexChar(c)
      [] class = "base64" -> IsBase64Char(c)
      [] class = "notquote" -> IsNotQuote(c)

\* the length of the longest prefix of s made of characters of the class
RunLen(s, class) ==
    IF \A i \in 1..Len(s) : InClass(At(s, i), class) THEN Len(s)
    ELSE (CHOOSE i \in 1..Len(s) :
              ~InClass(At(s, i), class) /\ \A j \in 1..(i - 1) : InClass(At(s, j), class)) - 1

\* the length of the longest suffix of s made of characters of the class
RunLenBack(s, class) ==
    IF \A i \in 1..Len(s) : InClass(At(s, i), class) THEN Len(s)
    ELSE Len(s) - (CHOOSE i \in 1..Len(s) :
                       ~InClass(At(s, i), class) /\ \A j \in (i + 1)..Len(s) : InClass(At(s, j), class))

LStrip(s) == SubSeq(s, RunLen(s, "space") + 1, Len(s))

RStrip(s) == SubSeq(s, 1, Len(s) - RunLenBack(s, "space"))

\* str.strip
Strip(s) == RStrip(LStrip(s))

\* str.lower on one character
LowerChar(c) ==
    IF \E i \in 1..Len(UpperCase) : At(UpperCase, i) = c
    THEN At(LowerCase, CHOOSE i \in 1..Len(UpperCase) : At(UpperCase, i) = c)
    ELSE c

\* str.lower
RECURSIVE Lower(_)
Lower(s) == IF s = "" THEN "" ELSE LowerChar(Head(s)) \o Lower(Tail(s))

\* str.replace(c, "") for a single character c
RECURSIVE RemoveChar(_, _)
RemoveChar(s, c) ==
    IF s = "" THEN ""
    ELSE IF Head(s) = c THEN RemoveChar(Tail(s), c)
    ELSE Head(s) \o RemoveChar(Tail(s), c)

\* bytes.hex() and UUID.hex: two lowercase hex digits for every byte
HexByte(b) == At("0123456789abcdef", (b \div 16) + 1) \o At("0123456789abcdef", (b % 16) + 1)

RECURSIVE BytesHex(_)
BytesHex(bs) == IF bs = <<>> THEN "" ELSE HexByte(Head(bs)) \o BytesHex(Tail(bs))

\* str.splitlines: the line breaks are \n, \r, \r\n and \f, and a trailing
\* break opens no further line
IsBreakAt(s, i) == At(s, i) \in {"\n", "\r", "\f"}

RECURSIVE SplitLines(_)
SplitLines(s) ==
    IF s = "" THEN <<>>
    ELSE IF \A i \in 1..Len(s) : ~IsBreakAt(s, i) THEN <<s>>
    ELSE LET p == CHOOSE i \in 1..Len(s) :
                      IsBreakAt(s, i) /\ \A j \in 1..(i - 1) : ~IsBreakAt(s, j)
             w == IF StartsWith(SubSeq(s, p, Len(s)), "\r\n") THEN 2 ELSE 1
         IN  <<SubSeq(s, 1, p - 1)>> \o SplitLines(SubSeq(s, p + w, Len(s)))

(***************************************************************************)
(* re.search for the three patterns of fetch_stream_segments, each of the  *)
(* shape  prefix (class+) suffix : a literal prefix, a greedy run of one   *)
(* or more characters of a class, a literal suffix (possibly empty) that   *)
(* begins with no character of the class.  The result is the captured group of   *)
(* the leftmost match, or "" when there is none (a group is never empty).  *)
(***************************************************************************)
MatchAt(s, i, prefix, class, suffix) ==
    LET rest == SubSeq(s, i + Len(prefix), Len(s))
        n == RunLen(rest, class)
    IN  /\ StartsWith(SubSeq(s, i, Len(s)), prefix)
        /\ n >= 1
        /\ StartsWith(SubSeq(rest, n + 1, Len(rest)), suffix)

SearchGroup(s, prefix, class, suffix) ==
    LET hits == {i \in 1..Len(s) : MatchAt(s, i, prefix, class, suffix)}
    IN  IF hits = {} THEN ""
        ELSE LET i == CHOOSE h \in hits : \A g \in hits : h <= g
                 rest == SubSeq(s, i + Len(prefix), Len(s))
             IN  SubSeq(rest, 1, RunLen(rest, class))

(***************************************************************************)
(* HTTP.  A request either raises (transport failure) or is answered with  *)
(* a status and a body; raise_for_status raises on a 4xx or 5xx status.    *)
(***************************************************************************)
RaisesForStatus(status) == status >= 400 /\ status < 600

(***************************************************************************)
(* fetch_stream_segments                                                   *)
(***************************************************************************)
\* how a call stands: not finished, returned, or raised
Pending == [kind |-> "pending"]
Return(v) == [kind |-> "return", value |-> v]
Raise(e) == [kind |-> "raise", error |-> e]

\* ScanLines with the flag dropped by whatever line follows the announcement
RECURSIVE ScanLinesNextLineOnly(_, _, _)
ScanLinesNextLineOnly(lines, after_extinf, segment_uris) ==
    IF lines = <<>> THEN segment_uris
    ELSE LET line == Strip(Head(lines))
         IN  IF StartsWith(line, "#EXTINF:")
             THEN ScanLinesNextLineOnly(Tail(lines), TRUE, segment_uris)
             ELSE IF after_extinf /\ line # "" /\ ~StartsWith(line, "#")
             THEN ScanLinesNextLineOnly(Tail(lines), FALSE, Append(segment_uris, line))
             ELSE ScanLinesNextLineOnly(Tail(lines), FALSE, segment_uris)

\* ScanLines with the flag left set after a capture
RECURSIVE ScanLinesNoReset(_, _, _)
ScanLinesNoReset(lines, after_extinf, segment_uris) ==
    IF lines = <<>> THEN segment_uris
    ELSE LET line == Strip(Head(lines))
         IN  IF StartsWith(line, "#EXTINF:")
             THEN ScanLinesNoReset(Tail(lines), TRUE, segment_uris)
             ELSE IF after_extinf /\ line # "" /\ ~StartsWith(line, "#")
             THEN ScanLinesNoReset(Tail(lines), after_extinf, Append(segment_uris, line))
             ELSE ScanLinesNoReset(Tail(lines), after_extinf, segment_uris)

\* the scan of the manifest's lines: after_extinf is the one-slot flag
RECURSIVE ScanLines(_, _, _)
ScanLines(lines, after_extinf, segment_uris) ==
    IF lines = <<>> THEN segment_uris
    ELSE LET line == Strip(Head(lines))
         IN  IF StartsWith(line, "#EXTINF:")
             THEN ScanLines(Tail(lines), TRUE, segment_uris)
             ELSE IF after_extinf /\ line # "" /\ ~StartsWith(line, "#")
             THEN ScanLines(Tail(lines), FALSE, Append(segment_uris, line))
             ELSE ScanLines(Tail(lines), after_extinf, segment_uris)

ParseKeyId(manifest, song_id) ==
    LET g == SearchGroup(manifest, "KEYID=0x", "hex", "")
    IN  IF g # "" THEN Lower(g) ELSE RemoveChar(song_id, "-")

\* pssh_b64 is a string or None: [some, b64], with some = FALSE for None
ParsePssh(manifest) ==
    LET g == SearchGroup(manifest, "URI=\"data:text/plain;base64,", "base64", "\"")
    IN  IF g # "" THEN [some |-> TRUE, b64 |-> g] ELSE [some |-> FALSE, b64 |-> ""]

ParseInitUri(manifest, song_id) ==
    LET g == SearchGroup(manifest, "EXT-X-MAP:URI=\"", "notquote", "\"")
    IN  IF g # "" THEN g
        ELSE "/api/v2/audio-stream/content/" \o song_id \o "/init.mp4"

\* fetch_stream_segments without the check for an empty segment list
fetch_stream_segments_unchecked(song_id, resp) ==
    IF resp.err THEN Raise("TransportError")
    ELSE IF RaisesForStatus(resp.status) THEN Raise("HTTPError")
    ELSE [kind |-> "ok",
          key_id |-> ParseKeyId(resp.text, song_id),
          pssh_b64 |-> ParsePssh(resp.text),
          init_uri |-> ParseInitUri(resp.text, song_id),
          segment_uris |-> ScanLines(SplitLines(resp.text), FALSE, <<>>)]

fetch_stream_segments(song_id, resp) ==
    IF resp.err THEN Raise("TransportError")
    ELSE IF RaisesForStatus(resp.status) THEN Raise("HTTPError")
    ELSE LET manifest == resp.text
             segment_uris == ScanLines(SplitLines(manifest), FALSE, <<>>)
         IN  IF segment_uris = <<>> THEN Raise("ManifestError")
             ELSE [kind |-> "ok",
                   key_id |-> ParseKeyId(manifest, song_id),
                   pssh_b64 |-> ParsePssh(manifest),
                   init_uri |-> ParseInitUri(manifest, song_id),
                   segment_uris |-> segment_uris]

(***************************************************************************)
(* resolve_stream_uri                                                      *)
(***************************************************************************)
StreamOrigin == "https://stream.udio.com"

\* resolve_stream_uri with the separator added to a root-relative URI too
resolve_stream_uri_slash(uri) ==
    IF StartsWith(uri, "http://") \/ StartsWith(uri, "https://") THEN uri
    ELSE StreamOrigin \o "/" \o uri

\* resolve_stream_uri taking only http:// for absolute
resolve_stream_uri_http(uri) ==
    IF StartsWith(uri, "http://") THEN uri
    ELSE IF StartsWith(uri, "/") THEN StreamOrigin \o uri
    ELSE StreamOrigin \o "/" \o uri

resolve_stream_uri(uri) ==
    IF StartsWith(uri, "http://") \/ StartsWith(uri, "https://") THEN uri
    ELSE IF StartsWith(uri, "/") THEN StreamOrigin \o uri
    ELSE StreamOrigin \o "/" \o uri

(***************************************************************************)
(* Inputs.                                                                 *)
(***************************************************************************)
\* the sequences over S of length at most n
SeqsUpTo(S, n) == UNION {[1..k -> S] : k \in 0..n}

RECURSIVE Concat(_)
Concat(parts) == IF parts = <<>> THEN "" ELSE Head(parts) \o Concat(Tail(parts))

\* a document: every line followed by the line break term
RECURSIVE JoinLines(_, _)
JoinLines(lines, term) ==
    IF lines = <<>> THEN "" ELSE Head(lines) \o term \o JoinLines(Tail(lines), term)

\* the most lines of a manifest document
MaxLines == 4

ManifestLines ==
    { "#EXTINF:6.0,",
      " #EXTINF:6.0,\t",
      "seg0.m4s",
      "  /a/seg1.m4s ",
      "",
      "   ",
      "#EXT-X-KEY:URI=\"data:text/plain;base64,AAAAOHBz\",KEYID=0x0AB1",
      "#EXT-X-MAP:URI=\"init.mp4\"" }

LineBreaks == {"\n", "\r\n"}

ManifestDocs ==
    {JoinLines(ls, t) : ls \in SeqsUpTo(ManifestLines, MaxLines), t \in LineBreaks}

SongIds == {"0ab1-c2d3"}

HttpError == [err |-> TRUE, status |-> 0, text |-> ""]
HttpAnswer(status, text) == [err |-> FALSE, status |-> status, text |-> text]

ManifestResponses ==
    {HttpError, HttpAnswer(404, ""), HttpAnswer(500, "")}
        \cup {HttpAnswer(200, d) : d \in ManifestDocs}

\* the most tokens of a URI given to resolve_stream_uri
MaxUriTokens == 3

UriTokens == {"https://", "http://", "HTTPS://", "http:/", "/", "a", "seg.m4s",
              "stream.udio.com"}

UriInputs == {Concat(ts) : ts \in SeqsUpTo(UriTokens, MaxUriTokens)}

\* the most keys of a license response
MaxKeys == 3

\* 16-byte key identifiers and keys
Bytes16(b) == [i \in 1..16 |-> IF i = 16 THEN b ELSE 0]
Kids == {Bytes16(10), Bytes16(177)}
KeyValues == {Bytes16(1), Bytes16(254)}

LicenseKeys == [type : {"CONTENT", "SIGNING"}, kid : Kids, key : KeyValues]
LicenseKeyLists == SeqsUpTo(LicenseKeys, MaxKeys)

\* the manifest's key id: that of a licensed key, or one no license holds
KeyIdInputs == {BytesHex(kid) : kid \in Kids} \cup {"0ab1"}

\* the licenses answered within a run of main: up to MaxKeys keys out of a
\* content key for either key id and a signing key
MainLicenseKeys ==
    {[type |-> "CONTENT", kid |-> Bytes16(10), key |-> Bytes16(1)],
     [type |-> "CONTENT", kid |-> Bytes16(177), key |-> Bytes16(254)],
     [type |-> "SIGNING", kid |-> Bytes16(10), key |-> Bytes16(254)]}

\* what cdm.get_keys may yield: any list for a call of obtain_content_key
\* on its own, the lists above within a run of main
LicensesOffered ==
    IF pc = "idle" THEN LicenseKeyLists ELSE SeqsUpTo(MainLicenseKeys, MaxKeys)

LicenseResponses == {HttpError, HttpAnswer(200, ""), HttpAnswer(403, "")}

\* the most media segments of a manifest given to download_drm_stream
MaxSegments == 2

SegmentUriInputs == {"seg0.m4s", "/a/seg1.m4s", "https://cdn.udio.com/s2.m4s"}

\* a manifest listing the segments uris, with or without an EXT-X-MAP line
StreamDoc(uris, with_map) ==
    "#EXTM3U\n"
    \o (IF with_map THEN "#EXT-X-MAP:URI=\"init.mp4\"\n" ELSE "")
    \o Concat([i \in 1..Len(uris) |-> "#EXTINF:6.0,\n" \o uris[i] \o "\n"])
    \o "#EXT-X-ENDLIST\n"

StreamManifestResponses ==
    {HttpError, HttpAnswer(404, "")}
        \cup {HttpAnswer(200, StreamDoc(uris, with_map)) :
                  uris \in SeqsUpTo(SegmentUriInputs, MaxSegments), with_map \in BOOLEAN}

\* what download_drm_stream's request of the manifest is answered with: any
\* of the above for a call on its own; within a run of main, a failure or
\* a manifest listing one URI up to MaxSegments times
ManifestsOffered ==
    IF pc = "idle" THEN StreamManifestResponses
    ELSE {HttpError}
            \cup {HttpAnswer(200, StreamDoc(uris, TRUE)) :
                      uris \in SeqsUpTo({"seg0.m4s"}, MaxSegments)}

\* what a segment request is answered with
SegmentResponses ==
    {HttpError, HttpAnswer(404, "E!"), HttpAnswer(200, "ab"), HttpAnswer(200, "cde")}

\* keys given to download_drm_stream: two of 32 hex characters, the second
\* with white space around it and in upper case, one of 31 characters, one
\* with a "g"
KeyHexInputs ==
    { BytesHex(Bytes16(1)),
      " 000000000000000000000000000000FE\n",
      SubSeq(BytesHex(Bytes16(1)), 1, 31),
      SubSeq(BytesHex(Bytes16(1)), 1, 31) \o "g" }

(***************************************************************************)
(* obtain_content_key                                                      *)
(***************************************************************************)
None == [some |-> FALSE, hex |-> ""]
Some(h) == [some |-> TRUE, hex |-> h]

\* the loop body with content_key overwritten by every content key
KeyLoopBodyLast(key, key_id, ck) ==
    IF key.type = "CONTENT"
    THEN IF BytesHex(key.kid) = key_id
         THEN [returns |-> TRUE, value |-> BytesHex(key.key), content_key |-> ck]
         ELSE [returns |-> FALSE, value |-> "", content_key |-> Some(BytesHex(key.key))]
    ELSE [returns |-> FALSE, value |-> "", content_key |-> ck]

\* the body of the loop over cdm.get_keys, for one key: whether it returns,
\* what it returns, and content_key after it
KeyLoopBody(key, key_id, ck) ==
    IF key.type = "CONTENT"
    THEN IF BytesHex(key.kid) = key_id
         THEN [returns |-> TRUE, value |-> BytesHex(key.key), content_key |-> ck]
         ELSE [returns |-> FALSE, value |-> "",
               content_key |-> IF ~ck.some THEN Some(BytesHex(key.key)) ELSE ck]
    ELSE [returns |-> FALSE, value |-> "", content_key |-> ck]

\* the end of the call with None handed back to the caller
KeyLoopEndUnchecked(ck) == Return(ck.hex)

\* after the loop: content_key if it is truthy, else the error
KeyLoopEnd(ck) ==
    IF ck.some /\ ck.hex # "" THEN Return(ck.hex) ELSE Raise("NoContentKey")

Call(op, ok) == [op |-> op, ok |-> ok]

KeyRaise(e) ==
    /\ k_pc' = "done"
    /\ k_out' = Raise(e)

\* Device.load and Cdm.from_device
KLoadDevice ==
    /\ k_pc = "load"
    /\ \E ok \in BOOLEAN :
          IF ok THEN k_pc' = "open" /\ UNCHANGED k_out
          ELSE KeyRaise("DeviceError")
    /\ UNCHANGED <<k_key_id, k_resp, k_log, k_keys, k_i, content_key>>
    /\ UNCHANGED <<manifestVars, resolveVars, streamVars, credVars, mainVars>>

\* session_id = cdm.open()
KOpen ==
    /\ k_pc = "open"
    /\ \E ok \in BOOLEAN :
          /\ k_log' = Append(k_log, Call("open", ok))
          /\ IF ok THEN k_pc' = "pssh" /\ UNCHANGED k_out
             ELSE KeyRaise("OpenError")
    /\ UNCHANGED <<k_key_id, k_resp, k_keys, k_i, content_key>>
    /\ UNCHANGED <<manifestVars, resolveVars, streamVars, credVars, mainVars>>

\* pssh = PSSH(pssh_b64)
KBuildPssh ==
    /\ k_pc = "pssh"
    /\ \E ok \in BOOLEAN :
          IF ok THEN k_pc' = "challenge" /\ UNCHANGED k_out
          ELSE KeyRaise("PsshError")
    /\ UNCHANGED <<k_key_id, k_resp, k_log, k_keys, k_i, content_key>>
    /\ UNCHANGED <<manifestVars, resolveVars, streamVars, credVars, mainVars>>

\* challenge = cdm.get_license_challenge(session_id, pssh)
KChallenge ==
    /\ k_pc = "challenge"
    /\ \E ok \in BOOLEAN :
          /\ k_log' = Append(k_log, Call("get_license_challenge", ok))
          /\ IF ok THEN k_pc' = "post" /\ UNCHANGED k_out
             ELSE KeyRaise("ChallengeError")
    /\ UNCHANGED <<k_key_id, k_resp, k_keys, k_i, content_key>>
    /\ UNCHANGED <<manifestVars, resolveVars, streamVars, credVars, mainVars>>

\* resp = SESSION.post(LICENSE_URL, ...); resp.raise_for_status()
KPost ==
    /\ k_pc = "post"
    /\ \E resp \in LicenseResponses :
          /\ k_resp' = resp
          /\ k_log' = Append(k_log, Call("post", ~resp.err))
          /\ IF resp.err THEN KeyRaise("TransportError")
             ELSE IF RaisesForStatus(resp.status) THEN KeyRaise("HTTPError")
             ELSE k_pc' = "parse" /\ UNCHANGED k_out
    /\ UNCHANGED <<k_key_id, k_keys, k_i, content_key>>
    /\ UNCHANGED <<manifestVars, resolveVars, streamVars, credVars, mainVars>>

\* cdm.parse_license(session_id, resp.content); content_key = None;
\* cdm.get_keys(session_id)
KParse ==
    /\ k_pc = "parse"
    /\ \/ /\ k_log' = Append(k_log, Call("parse_license", FALSE))
          /\ KeyRaise("LicenseError")
          /\ UNCHANGED <<k_keys, k_i, content_key>>
       \/ \E ks \in LicensesOffered :
             /\ k_log' = k_log \o <<Call("parse_license", TRUE), Call("get_keys", TRUE)>>
             /\ k_keys' = ks
             /\ k_i' = 1
             /\ content_key' = None
             /\ k_pc' = "keys"
             /\ UNCHANGED k_out
    /\ UNCHANGED <<k_key_id, k_resp>>
    /\ UNCHANGED <<manifestVars, resolveVars, streamVars, credVars, mainVars>>

\* one iteration of  for key in cdm.get_keys(session_id)
KNextKey ==
    /\ k_pc = "keys"
    /\ k_i <= Len(k_keys)
    /\ LET step == KeyLoopBody(k_keys[k_i], k_key_id, content_key)
       IN  IF step.returns
           THEN /\ k_log' = Append(k_log, Call("close", TRUE))
                /\ k_pc' = "done"
                /\ k_out' = Return(step.value)
                /\ UNCHANGED <<k_i, content_key>>
           ELSE /\ content_key' = step.content_key
                /\ k_i' = k_i + 1
                /\ UNCHANGED <<k_pc, k_log, k_out>>
    /\ UNCHANGED <<k_key_id, k_resp, k_keys>>
    /\ UNCHANGED <<manifestVars, resolveVars, streamVars, credVars, mainVars>>

\* after the loop: cdm.close(session_id), then the return or the error
KFinish ==
    /\ k_pc = "keys"
    /\ k_i > Len(k_keys)
    /\ k_log' = Append(k_log, Call("close", TRUE))
    /\ k_pc' = "done"
    /\ k_out' = KeyLoopEnd(content_key)
    /\ UNCHANGED <<k_key_id, k_resp, k_keys, k_i, content_key>>
    /\ UNCHANGED <<manifestVars, resolveVars, streamVars, credVars, mainVars>>

(***************************************************************************)
(* download_drm_stream                                                     *)
(***************************************************************************)
IsLowerHexChar(c) == c \in Chars("0123456789abcdef")

\* the key check without the check of the characters
ValidKeyLengthOnly(k) == Len(k) = 32

\* the key check, on the stripped and lowercased key
ValidKey(k) == Len(k) = 32 /\ \A i \in 1..Len(k) : IsLowerHexChar(At(k, i))

\* tmp_enc.write on a file reopened, and so truncated, for every write
TmpWriteTruncating(content, data) == data

\* tmp_enc.write(data): the file's content after the write
TmpWrite(content, data) == content \o data

StreamRaise(e) ==
    /\ d_pc' = "done"
    /\ d_out' = Raise(e)

\* key_hex = key_hex.strip().lower(), and the check of its format
DValidateKey ==
    /\ d_pc = "validate"
    /\ key_hex' = Lower(Strip(key_hex))
    /\ IF ValidKey(key_hex') THEN d_pc' = "manifest" /\ UNCHANGED d_out
       ELSE StreamRaise("InvalidKeyFormat")
    /\ UNCHANGED <<d_song_id, d_key_arg, segs, enc_file, d_i, d_requests,
                   ffmpeg_runs, dest_file>>
    /\ UNCHANGED <<manifestVars, resolveVars, keyVars, credVars, mainVars>>

\* segs = fetch_stream_segments(song_id)
DFetchManifest ==
    /\ d_pc = "manifest"
    /\ \E resp \in ManifestsOffered :
          LET got == fetch_stream_segments(d_song_id, resp)
          IN  IF got.kind = "raise"
              THEN d_pc' = "done" /\ d_out' = got /\ UNCHANGED segs
              ELSE d_pc' = "tempfile" /\ segs' = got /\ UNCHANGED d_out
    /\ UNCHANGED <<d_song_id, d_key_arg, key_hex, enc_file, d_i, d_requests,
                   ffmpeg_runs, dest_file>>
    /\ UNCHANGED <<manifestVars, resolveVars, keyVars, credVars, mainVars>>

\* with tempfile.NamedTemporaryFile(suffix=".enc.m4a", delete=False)
DCreateTemp ==
    /\ d_pc = "tempfile"
    /\ \E ok \in BOOLEAN :
          IF ok
          THEN /\ enc_file' = [exists |-> TRUE, content |-> ""]
               /\ d_pc' = "init"
               /\ UNCHANGED d_out
          ELSE StreamRaise("TempFileError") /\ UNCHANGED enc_file
    /\ UNCHANGED <<d_song_id, d_key_arg, key_hex, segs, d_i, d_requests,
                   ffmpeg_runs, dest_file>>
    /\ UNCHANGED <<manifestVars, resolveVars, keyVars, credVars, mainVars>>

\* the init segment: SESSION.get(init_url, ...).content is written whatever
\* the status of the answer; only a failed transport raises, and leaving
\* the with block closes the file without removing it
DFetchInit ==
    /\ d_pc = "init"
    /\ \E resp \in SegmentResponses :
          /\ d_requests' =
                Append(d_requests, [url |-> resolve_stream_uri(segs.init_uri), resp |-> resp])
          /\ IF resp.err
             THEN StreamRaise("TransportError") /\ UNCHANGED <<enc_file, d_i>>
             ELSE /\ enc_file' = [enc_file EXCEPT !.content = TmpWrite(@, resp.text)]
                  /\ d_i' = 1
                  /\ d_pc' = "segments"
                  /\ UNCHANGED d_out
    /\ UNCHANGED <<d_song_id, d_key_arg, key_hex, segs, ffmpeg_runs, dest_file>>
    /\ UNCHANGED <<manifestVars, resolveVars, keyVars, credVars, mainVars>>

\* one iteration of  for seg_name in segs["segment_uris"]
DFetchSegment ==
    /\ d_pc = "segments"
    /\ d_i <= Len(segs.segment_uris)
    /\ \E resp \in SegmentResponses :
          /\ d_requests' =
                Append(d_requests,
                       [url |-> resolve_stream_uri(segs.segment_uris[d_i]), resp |-> resp])
          /\ IF resp.err
             THEN StreamRaise("TransportError") /\ UNCHANGED <<enc_file, d_i>>
             ELSE IF RaisesForStatus(resp.status)
             THEN StreamRaise("HTTPError") /\ UNCHANGED <<enc_file, d_i>>
             ELSE /\ enc_file' = [enc_file EXCEPT !.content = TmpWrite(@, resp.text)]
                  /\ d_i' = d_i + 1
                  /\ UNCHANGED <<d_pc, d_out>>
    /\ UNCHANGED <<d_song_id, d_key_arg, key_hex, segs, ffmpeg_runs, dest_file>>
    /\ UNCHANGED <<manifestVars, resolveVars, keyVars, credVars, mainVars>>

\* what a run of ffmpeg that ends with a return code other than 0 has made
\* of its output file: nothing, or a part of the stream
FfmpegOutputs == {"absent", "partial"}

\* the try block: subprocess.run of ffmpeg on enc_path, which raises when
\* the program cannot be started, and the check of its return code; a run
\* that ends with code 0 has written dest, and nothing removes what a
\* failed run has written; the finally clause removes enc_path on every
\* way out of the block
DDecrypt ==
    /\ d_pc = "segments"
    /\ d_i > Len(segs.segment_uris)
    /\ \E started \in BOOLEAN, rc \in {0, 1}, written \in FfmpegOutputs :
          /\ IF ~started
             THEN /\ d_out' = Raise("FfmpegNotFound")
                  /\ UNCHANGED <<ffmpeg_runs, dest_file>>
             ELSE /\ ffmpeg_runs' =
                        Append(ffmpeg_runs,
                               [key |-> key_hex, input |-> enc_file.content, rc |-> rc])
                  /\ dest_file' = IF rc = 0 THEN "complete" ELSE written
                  /\ d_out' = IF rc # 0 THEN Raise("DecryptionFailed") ELSE Return("")
    /\ enc_file' = [enc_file EXCEPT !.exists = FALSE]
    /\ d_pc' = "done"
    /\ UNCHANGED <<d_song_id, d_key_arg, key_hex, segs, d_i, d_requests>>
    /\ UNCHANGED <<manifestVars, resolveVars, keyVars, credVars, mainVars>>

(***************************************************************************)
(* The device file: args.cdm, else find_wvd_device.                        *)
(***************************************************************************)
\* an optional command line argument: None, or a string
NoArg == [some |-> FALSE, value |-> ""]
Arg(v) == [some |-> TRUE, value |-> v]

\* Path | None
NoPath == [some |-> FALSE, path |-> ""]
SomePath(p) == [some |-> TRUE, path |-> p]

\* _config_dir(), away from win32
ConfigDir == "~/.config/music-dl"

\* the environment and the file system: $MUSIC_DL_CDM (a [some, value]),
\* the files that exist outside the configuration directory, whether that
\* directory exists, and its entries in the order iterdir yields them
NoFileSystem ==
    [environ_cdm |-> NoArg, files |-> {}, is_dir |-> FALSE, entries |-> <<>>]

\* config_dir / name
InConfigDir(name) == ConfigDir \o "/" \o name

\* Path.exists
Exists(fs, p) ==
    \/ p \in fs.files
    \/ fs.is_dir /\ \E i \in 1..Len(fs.entries) : p = InConfigDir(fs.entries[i])

\* PurePath.suffix of a file name: from its last dot on, when that dot is
\* neither the first nor the last character of the name
Suffix(name) ==
    LET dots == {i \in 1..Len(name) : At(name, i) = "."}
    IN  IF dots = {} THEN ""
        ELSE LET i == CHOOSE d \in dots : \A e \in dots : e <= d
             IN  IF 1 < i /\ i < Len(name) THEN SubSeq(name, i, Len(name)) ELSE ""

\* the entries of the configuration directory that are device files
WvdEntries(fs) ==
    IF fs.is_dir THEN {i \in 1..Len(fs.entries) : Suffix(fs.entries[i]) = ".wvd"}
    ELSE {}

\* find_wvd_device with the directory searched before device.wvd
find_wvd_device_dir_first(fs) ==
    IF fs.environ_cdm.some /\ fs.environ_cdm.value # ""
          /\ Exists(fs, fs.environ_cdm.value)
    THEN SomePath(fs.environ_cdm.value)
    ELSE IF WvdEntries(fs) # {}
    THEN SomePath(InConfigDir(
             fs.entries[CHOOSE i \in WvdEntries(fs) : \A j \in WvdEntries(fs) : i <= j]))
    ELSE IF Exists(fs, InConfigDir("device.wvd")) THEN SomePath(InConfigDir("device.wvd"))
    ELSE NoPath

find_wvd_device(fs) ==
    IF fs.environ_cdm.some /\ fs.environ_cdm.value # ""
          /\ Exists(fs, fs.environ_cdm.value)
    THEN SomePath(fs.environ_cdm.value)
    ELSE IF Exists(fs, InConfigDir("device.wvd")) THEN SomePath(InConfigDir("device.wvd"))
    ELSE IF WvdEntries(fs) # {}
    THEN SomePath(InConfigDir(
             fs.entries[CHOOSE i \in WvdEntries(fs) : \A j \in WvdEntries(fs) : i <= j]))
    ELSE NoPath

\* cdm_path = Path(args.cdm) if args.cdm else find_wvd_device()
CdmPath(cdm, fs) ==
    IF cdm.some /\ cdm.value # "" THEN SomePath(cdm.value) ELSE find_wvd_device(fs)

\* the choice of cdm_path, in an environment drawn from FSs
CredentialLookup(FSs) ==
    \E fs \in FSs :
        /\ c_fs' = fs
        /\ c_out' = Return(CdmPath(c_cdm, fs))
        /\ UNCHANGED c_cdm

\* the values of args.cdm and of $MUSIC_DL_CDM: unset, empty, a file
\* that may exist
CdmArgs == {NoArg, Arg(""), Arg("/tmp/my.wvd")}
EnvironCdms == {NoArg, Arg(""), Arg("/tmp/env.wvd")}

\* names found in the configuration directory
MaxEntries == 2
EntryNames == {"device.wvd", "b.wvd", "a.wvd", ".wvd", "c.wvd.bak"}
EntryLists ==
    {es \in SeqsUpTo(EntryNames, MaxEntries) :
        \A i, j \in 1..Len(es) : i # j => es[i] # es[j]}

FileSystems ==
    {fs \in [environ_cdm : EnvironCdms, files : SUBSET {"/tmp/my.wvd", "/tmp/env.wvd"},
             is_dir : BOOLEAN, entries : EntryLists] :
        ~fs.is_dir => fs.entries = <<>>}

(***************************************************************************)
(* main                                                                    *)
(***************************************************************************)
\* sub in s
Contains(s, sub) ==
    \E i \in 1..(Len(s) - Len(sub) + 1) : SubSeq(s, i, i + Len(sub) - 1) = sub

\* detect_platform asking for the URL to be the host name itself
detect_platform_exact(url) == IF url = "suno.com" THEN "suno" ELSE "other"

detect_platform(url) == IF Contains(url, "suno.com") THEN "suno" ELSE "other"

\* the command lines: a URL of either platform; no key, an empty key, a
\* key of 32 characters with white space around it, a key of 31 characters
MainUrls == {"https://www.udio.com/songs/x", "https://suno.com/song/0ab1-c2d3"}
MainKeys ==
    {NoArg, Arg(""), Arg(" 000000000000000000000000000000FE\n"),
     Arg(SubSeq(BytesHex(Bytes16(1)), 1, 31))}

\* what the page request and the direct request are answered with
PageResponses == {HttpError, HttpAnswer(404, ""), HttpAnswer(200, "")}
Mp3Responses ==
    {HttpError, HttpAnswer(403, ""), HttpAnswer(404, ""), HttpAnswer(500, ""),
     HttpAnswer(200, "")}

\* info["id"]: a UUID, the default "Unknown", or an empty string
InfoIds == {"0ab1-c2d3", "Unknown", ""}

\* a manifest with a key id and a pssh
ProtectedDoc ==
    "#EXTM3U\n"
    \o "#EXT-X-KEY:METHOD=SAMPLE-AES,URI=\"data:text/plain;base64,AAAAIHBzc2g=\","
    \o "KEYID=0x0A0A0A0A0A0A0A0A0A0A0A0A0A0A0A0A\n"
    \o "#EXTINF:6.0,\nseg0.m4s\n"

\* what main's own request of the manifest is answered with: a failure, a
\* manifest without segments, one without a pssh, one with a pssh
MainManifestResponses ==
    {HttpError,
     HttpAnswer(200, "#EXTM3U\n#EXT-X-ENDLIST\n"),
     HttpAnswer(200, StreamDoc(<<"seg0.m4s">>, TRUE)),
     HttpAnswer(200, ProtectedDoc)}

\* the environments main may choose the device file in
MainFileSystems ==
    {fs \in FileSystems :
        /\ fs.environ_cdm = NoArg
        /\ fs.files \subseteq {"/tmp/my.wvd"}
        /\ fs.entries \in {<<>>, <<"b.wvd">>}}

\* sys.exit(status), or an exception no handler catches: the process ends
\* with that status, for that reason
MainExit(status, condition) ==
    /\ pc' = "done"
    /\ exit_status' = status
    /\ fatal' = condition

\* html = fetch_page(args.url)
MFetchPage ==
    /\ pc = "page"
    /\ \E resp \in PageResponses :
          IF resp.err THEN MainExit("1", "TransportError")
          ELSE IF RaisesForStatus(resp.status) THEN MainExit("1", "HTTPError")
          ELSE pc' = "extract" /\ UNCHANGED <<fatal, exit_status>>
    /\ UNCHANGED <<args, info, mp3_resp, mp3_out, mp3_part, mp3_dest, report>>
    /\ UNCHANGED <<manifestVars, resolveVars, keyVars, streamVars, credVars>>

\* info = extract_suno_info(html, args.url), which always answers, or
\* extract_song_info(html), which raises when the page has no metadata
MExtractInfo ==
    /\ pc = "extract"
    /\ \/ /\ detect_platform(args.url) # "suno"
          /\ MainExit("1", "MetadataError")
          /\ UNCHANGED info
       \/ \E id \in InfoIds :
             /\ info' = [id |-> id]
             /\ pc' = "direct"
             /\ UNCHANGED <<fatal, exit_status>>
    /\ UNCHANGED <<args, mp3_resp, mp3_out, mp3_part, mp3_dest, report>>
    /\ UNCHANGED <<manifestVars, resolveVars, keyVars, streamVars, credVars>>

\* try_download_mp3 leaving the part file on every error
try_download_mp3 ==
    \E resp \in Mp3Responses, body_ok \in BOOLEAN :
        /\ mp3_resp' = resp
        /\ IF resp.err
           THEN mp3_out' = Raise("TransportError") /\ UNCHANGED <<mp3_part, mp3_dest>>
           ELSE IF resp.status \in {403, 404}
           THEN mp3_out' = Return("False") /\ UNCHANGED <<mp3_part, mp3_dest>>
           ELSE IF RaisesForStatus(resp.status)
           THEN mp3_out' = Raise("HTTPError") /\ UNCHANGED <<mp3_part, mp3_dest>>
           ELSE IF ~body_ok
           THEN /\ mp3_part' = "present"
                /\ mp3_out' = Raise("TransportError")
                /\ UNCHANGED mp3_dest
           ELSE /\ mp3_part' = "absent"
                /\ mp3_dest' = "complete"
                /\ mp3_out' = Return("True")

\* try_download_mp3(info["song_path"], mp3_dest), called by main
MDirect ==
    /\ pc = "direct"
    /\ try_download_mp3
    /\ pc' = "route"
    /\ UNCHANGED <<args, info, report, fatal, exit_status>>
    /\ UNCHANGED <<manifestVars, resolveVars, keyVars, streamVars, credVars>>

\* main giving up after any direct attempt that saved no file
MRouteNoFallback ==
    /\ pc = "route"
    /\ IF mp3_out = Return("True") THEN MainExit("0", "")
       ELSE MainExit("1", "DirectFailed")
    /\ UNCHANGED <<args, info, mp3_resp, mp3_out, mp3_part, mp3_dest, report>>
    /\ UNCHANGED <<manifestVars, resolveVars, keyVars, streamVars, credVars>>

\* what main does with the outcome of the direct attempt: it returns when
\* the file was saved; else, an exception caught and printed or not, it
\* gives up for Suno and for a song without an id
MRoute ==
    /\ pc = "route"
    /\ IF mp3_out = Return("True") THEN MainExit("0", "")
       ELSE IF detect_platform(args.url) = "suno" THEN MainExit("1", "SunoFailed")
       ELSE IF info.id = "" \/ info.id = "Unknown" THEN MainExit("1", "NoSongId")
       ELSE pc' = "key" /\ UNCHANGED <<fatal, exit_status>>
    /\ UNCHANGED <<args, info, mp3_resp, mp3_out, mp3_part, mp3_dest, report>>
    /\ UNCHANGED <<manifestVars, resolveVars, keyVars, streamVars, credVars>>

\* download_drm_stream(song_id, key, m4a_dest) is called
CallDownloadDrmStream(key) ==
    /\ d_pc' = "validate"
    /\ d_song_id' = info.id
    /\ d_key_arg' = key
    /\ key_hex' = key
    /\ UNCHANGED <<segs, enc_file, d_i, d_requests, ffmpeg_runs, dest_file, d_out>>

\* main asking for the manifest whether a key was given or not
MDetermineKeyIgnoringArg ==
    /\ pc = "key"
    /\ m_song_id' = info.id
    /\ \E resp \in MainManifestResponses :
          /\ m_resp' = resp
          /\ m_out' = fetch_stream_segments(info.id, resp)
    /\ IF m_out'.kind = "raise" THEN MainExit("1", m_out'.error)
       ELSE pc' = "credential" /\ UNCHANGED <<fatal, exit_status>>
    /\ UNCHANGED <<args, info, mp3_resp, mp3_out, mp3_part, mp3_dest, report>>
    /\ UNCHANGED <<resolveVars, keyVars, streamVars, credVars>>

\* if args.key: the key is the argument and the stream is downloaded;
\* else segs = fetch_stream_segments(song_id)
MDetermineKey ==
    /\ pc = "key"
    /\ IF args.key.some /\ args.key.value # ""
       THEN /\ CallDownloadDrmStream(args.key.value)
            /\ pc' = "stream"
            /\ UNCHANGED <<manifestVars, fatal, exit_status>>
       ELSE /\ m_song_id' = info.id
            /\ \E resp \in MainManifestResponses :
                  /\ m_resp' = resp
                  /\ m_out' = fetch_stream_segments(info.id, resp)
            /\ IF m_out'.kind = "raise" THEN MainExit("1", m_out'.error)
               ELSE pc' = "credential" /\ UNCHANGED <<fatal, exit_status>>
            /\ UNCHANGED streamVars
    /\ UNCHANGED <<args, info, mp3_resp, mp3_out, mp3_part, mp3_dest, report>>
    /\ UNCHANGED <<resolveVars, keyVars, credVars>>

\* obtain_content_key(cdm_path, pssh, segs["key_id"]) is called
CallObtainContentKey ==
    /\ k_pc' = "load"
    /\ k_key_id' = m_out.key_id
    /\ UNCHANGED <<k_resp, k_log, k_keys, k_i, content_key, k_out>>

\* the checks of lines 412-419 without the one for the pssh
CredentialVerdictNoPsshCheck(cdm_path, fs, manifest) ==
    IF ~cdm_path.some THEN "KeyRequired"
    ELSE IF ~Exists(fs, cdm_path.path) THEN "MissingCredential"
    ELSE "negotiate"

\* what main does with cdm_path and segs: without a device file it prints
\* the guidance; a device file that does not exist and a manifest without
\* pssh end the run; else the key is asked for
CredentialVerdict(cdm_path, fs, manifest) ==
    IF ~cdm_path.some THEN "KeyRequired"
    ELSE IF ~Exists(fs, cdm_path.path) THEN "MissingCredential"
    ELSE IF ~manifest.pssh_b64.some THEN "MissingProtectionHeader"
    ELSE "negotiate"

\* the guidance without the line for the pssh
KeyGuidanceKeyIdOnly(manifest) ==
    [key_id |-> manifest.key_id, pssh_b64 |-> [some |-> FALSE, b64 |-> ""]]

\* what the guidance shows of the manifest: the key id, and the pssh if
\* there is one
KeyGuidance(manifest) ==
    [key_id |-> manifest.key_id, pssh_b64 |-> manifest.pssh_b64]

\* the choice of cdm_path and what follows from it
MSelectCredential ==
    /\ pc = "credential"
    /\ CredentialLookup(MainFileSystems)
    /\ LET verdict == CredentialVerdict(c_out'.value, c_fs', m_out)
       IN  IF verdict = "negotiate"
           THEN /\ CallObtainContentKey
                /\ pc' = "negotiate"
                /\ UNCHANGED <<report, fatal, exit_status>>
           ELSE /\ MainExit("1", verdict)
                /\ report' = IF verdict = "KeyRequired" THEN KeyGuidance(m_out)
                             ELSE report
                /\ UNCHANGED keyVars
    /\ UNCHANGED <<args, info, mp3_resp, mp3_out, mp3_part, mp3_dest>>
    /\ UNCHANGED <<manifestVars, resolveVars, streamVars>>

\* obtain_content_key has ended: its error ends main, its key goes to
\* download_drm_stream; its locals are gone
MKeyObtained ==
    /\ pc = "negotiate"
    /\ k_pc = "done"
    /\ k_pc' = "returned"
    /\ k_keys' = <<>>
    /\ k_i' = 1
    /\ content_key' = None
    /\ IF k_out.kind = "raise"
       THEN MainExit("1", k_out.error) /\ UNCHANGED streamVars
       ELSE /\ CallDownloadDrmStream(k_out.value)
            /\ pc' = "stream"
            /\ UNCHANGED <<fatal, exit_status>>
    /\ UNCHANGED <<k_key_id, k_resp, k_log, k_out>>
    /\ UNCHANGED <<args, info, mp3_resp, mp3_out, mp3_part, mp3_dest, report>>
    /\ UNCHANGED <<manifestVars, resolveVars, credVars>>

\* download_drm_stream has ended: its error ends main, else the file is
\* reported as saved and main returns
MStreamDone ==
    /\ pc = "stream"
    /\ d_pc = "done"
    /\ d_pc' = "returned"
    /\ IF d_out.kind = "raise" THEN MainExit("1", d_out.error) ELSE MainExit("0", "")
    /\ UNCHANGED <<d_song_id, d_key_arg, key_hex, segs, enc_file, d_i, d_requests,
                   ffmpeg_runs, dest_file, d_out>>
    /\ UNCHANGED <<args, info, mp3_resp, mp3_out, mp3_part, mp3_dest, report>>
    /\ UNCHANGED <<manifestVars, resolveVars, keyVars, credVars>>

(***************************************************************************)
(* SpecManifest: one call of fetch_stream_segments on any response.        *)
(***************************************************************************)
ResolveIdle == r_uri = "" /\ r_out = <<>>
ManifestIdle == m_song_id = "" /\ m_resp = HttpError /\ m_out = Pending
KeyIdle ==
    /\ k_pc = "idle" /\ k_key_id = "" /\ k_resp = Pending
    /\ k_log = <<>> /\ k_keys = <<>>
    /\ k_i = 1 /\ content_key = None /\ k_out = Pending
StreamIdle ==
    /\ d_pc = "idle" /\ d_song_id = "" /\ d_key_arg = "" /\ key_hex = ""
    /\ segs = Pending
    /\ enc_file = [exists |-> FALSE, content |-> ""] /\ d_i = 1
    /\ d_requests = <<>> /\ ffmpeg_runs = <<>> /\ dest_file = "absent"
    /\ d_out = Pending

CredIdle == c_cdm = NoArg /\ c_fs = NoFileSystem /\ c_out = Pending
MainIdle ==
    /\ pc = "idle" /\ args = [url |-> "", key |-> NoArg] /\ info = Pending
    /\ mp3_resp = Pending /\ mp3_out = Pending
    /\ mp3_part = "absent" /\ mp3_dest = "absent"
    /\ report = Pending /\ fatal = "" /\ exit_status = "running"

InitManifest ==
    /\ m_song_id \in SongIds
    /\ m_resp \in ManifestResponses
    /\ m_out = Pending
    /\ ResolveIdle
    /\ KeyIdle
    /\ StreamIdle
    /\ CredIdle
    /\ MainIdle

FetchStreamSegments ==
    /\ m_out.kind = "pending"
    /\ m_song_id # ""
    /\ m_out' = fetch_stream_segments(m_song_id, m_resp)
    /\ UNCHANGED <<m_song_id, m_resp, resolveVars, keyVars, streamVars, credVars, mainVars>>

NextManifest == FetchStreamSegments

SpecManifest == InitManifest /\ [][NextManifest]_vars

(***************************************************************************)
(* SpecResolve: resolve_stream_uri on any URI, then on its own result.     *)
(***************************************************************************)
InitResolve ==
    /\ r_uri \in UriInputs
    /\ r_out = <<>>
    /\ ManifestIdle
    /\ KeyIdle
    /\ StreamIdle
    /\ CredIdle
    /\ MainIdle

ResolveUri ==
    /\ r_out = <<>>
    /\ r_out' = <<resolve_stream_uri(r_uri)>>
    /\ UNCHANGED <<r_uri, manifestVars, keyVars, streamVars, credVars, mainVars>>

ResolveAgain ==
    /\ Len(r_out) = 1
    /\ r_out' = Append(r_out, resolve_stream_uri(r_out[1]))
    /\ UNCHANGED <<r_uri, manifestVars, keyVars, streamVars, credVars, mainVars>>

NextResolve == ResolveUri \/ ResolveAgain

SpecResolve == InitResolve /\ [][NextResolve]_vars

(***************************************************************************)
(* SpecKey: one call of obtain_content_key, for any manifest key id, any   *)
(* failure of a step and any license response.                             *)
(***************************************************************************)
InitKey ==
    /\ k_pc = "load"
    /\ k_key_id \in KeyIdInputs
    /\ k_resp = Pending
    /\ k_log = <<>>
    /\ k_keys = <<>>
    /\ k_i = 1
    /\ content_key = None
    /\ k_out = Pending
    /\ ManifestIdle
    /\ ResolveIdle
    /\ StreamIdle
    /\ CredIdle
    /\ MainIdle

NextKey ==
    \/ KLoadDevice \/ KOpen \/ KBuildPssh \/ KChallenge
    \/ KPost \/ KParse \/ KNextKey \/ KFinish

SpecKey == InitKey /\ [][NextKey]_vars

(***************************************************************************)
(* SpecStream: one call of download_drm_stream, for any key, any manifest  *)
(* and any answer to each request.                                         *)
(***************************************************************************)
InitStream ==
    /\ d_pc = "validate"
    /\ d_song_id = "0ab1-c2d3"
    /\ d_key_arg \in KeyHexInputs
    /\ key_hex = d_key_arg
    /\ segs = Pending
    /\ enc_file = [exists |-> FALSE, content |-> ""]
    /\ d_i = 1
    /\ d_requests = <<>>
    /\ ffmpeg_runs = <<>>
    /\ dest_file = "absent"
    /\ d_out = Pending
    /\ ManifestIdle
    /\ ResolveIdle
    /\ KeyIdle
    /\ CredIdle
    /\ MainIdle

NextStream ==
    \/ DValidateKey \/ DFetchManifest \/ DCreateTemp
    \/ DFetchInit \/ DFetchSegment \/ DDecrypt

SpecStream == InitStream /\ [][NextStream]_vars

(***************************************************************************)
(* SpecCredential: the choice of the device file, for any --cdm argument,  *)
(* any $MUSIC_DL_CDM and any content of the configuration directory.       *)
(***************************************************************************)
InitCredential ==
    /\ c_cdm \in CdmArgs
    /\ c_fs = NoFileSystem
    /\ c_out = Pending
    /\ ManifestIdle
    /\ ResolveIdle
    /\ KeyIdle
    /\ StreamIdle
    /\ MainIdle

SelectCredential ==
    /\ pc = "idle"
    /\ c_out = Pending
    /\ CredentialLookup(FileSystems)
    /\ UNCHANGED <<manifestVars, resolveVars, keyVars, streamVars, mainVars>>

NextCredential == SelectCredential

SpecCredential == InitCredential /\ [][NextCredential]_vars

(***************************************************************************)
(* Spec: one run of main, for any command line, any answer to each         *)
(* request, any environment and any failure of a step.                     *)
(***************************************************************************)
Init ==
    /\ pc = "page"
    /\ args \in [url : MainUrls, key : MainKeys]
    /\ c_cdm \in CdmArgs
    /\ c_fs = NoFileSystem
    /\ c_out = Pending
    /\ info = Pending
    /\ mp3_resp = Pending
    /\ mp3_out = Pending
    /\ mp3_part = "absent"
    /\ mp3_dest = "absent"
    /\ report = Pending
    /\ fatal = ""
    /\ exit_status = "running"
    /\ ManifestIdle
    /\ ResolveIdle
    /\ KeyIdle
    /\ StreamIdle

Next ==
    \/ MFetchPage \/ MExtractInfo \/ MDirect \/ MRoute \/ MDetermineKey
    \/ MSelectCredential \/ MKeyObtained \/ MStreamDone
    \/ KLoadDevice \/ KOpen \/ KBuildPssh \/ KChallenge
    \/ KPost \/ KParse \/ KNextKey \/ KFinish
    \/ DValidateKey \/ DFetchManifest \/ DCreateTemp
    \/ DFetchInit \/ DFetchSegment \/ DDecrypt

Spec == Init /\ [][Next]_vars

(***************************************************************************)
(* Claims on fetch_stream_segments (SpecManifest).                         *)
(***************************************************************************)
\* the document's lines as the scan sees them
DocLines == LET ls == SplitLines(m_resp.text) IN [i \in 1..Len(ls) |-> Strip(ls[i])]

IsAnnouncement(l) == StartsWith(l, "#EXTINF:")
IsUriLine(l) == l # "" /\ Head(l) # "#"

Announcements(L) == {i \in 1..Len(L) : IsAnnouncement(L[i])}

\* the URI lines between announcement i and the next announcement
UriLinesAfter(L, i) ==
    {k \in (i + 1)..Len(L) :
        /\ IsUriLine(L[k])
        /\ \A j \in (i + 1)..k : ~IsAnnouncement(L[j])}

\* every announcement is followed by exactly one URI line
WellPaired(L) == \A i \in Announcements(L) : Cardinality(UriLinesAfter(L, i)) = 1

\* the k-th announcement of the document
KthAnnouncement(L, k) ==
    CHOOSE i \in Announcements(L) :
        Cardinality({j \in Announcements(L) : j < i}) = k - 1

\* the URI lines that follow the announcements, in document order
PairedUris(L) ==
    [k \in 1..Cardinality(Announcements(L)) |->
        L[CHOOSE u \in UriLinesAfter(L, KthAnnouncement(L, k)) : TRUE]]

ManifestAnswered == ~m_resp.err /\ ~RaisesForStatus(m_resp.status)

\* C4: for a manifest document with N #EXTINF announcements, each followed
\* by exactly one URI line, fetch_stream_segments returns (for N >= 1 it does
\* return) a media list of length N: those URI lines, without the white
\* space around them, in document order.
C4_PairedSegments ==
    (m_out.kind # "pending" /\ ManifestAnswered /\ WellPaired(DocLines)) =>
        /\ Announcements(DocLines) # {} => m_out.kind = "ok"
        /\ m_out.kind = "ok" =>
              /\ Len(m_out.segment_uris) = Cardinality(Announcements(DocLines))
              /\ m_out.segment_uris = PairedUris(DocLines)

\* two announcements, one of them separated from its URI by another line
C4_Witness ==
    /\ m_out.kind = "ok"
    /\ WellPaired(DocLines)
    /\ Cardinality(Announcements(DocLines)) = 2
    /\ Len(DocLines) = 4
    /\ m_out.segment_uris = <<"seg0.m4s", "/a/seg1.m4s">>

\* no URI line stands after an announcement: the scan captures nothing
NothingToCapture(L) ==
    ~\E i, k \in 1..Len(L) : i < k /\ IsAnnouncement(L[i]) /\ IsUriLine(L[k])

\* C5: a manifest document in which the scan captures no segment URI makes
\* fetch_stream_segments fail with the manifest error, and no returned
\* manifest has an empty media segment list.
C5_NoEmptyManifest ==
    /\ m_out.kind = "ok" => m_out.segment_uris # <<>>
    /\ (m_out.kind # "pending" /\ ManifestAnswered /\ NothingToCapture(DocLines))
            => m_out = Raise("ManifestError")

\* a document with URI lines, none of them announced
C5_Witness ==
    /\ m_out = Raise("ManifestError")
    /\ \E k \in 1..Len(DocLines) : IsUriLine(DocLines[k])

(***************************************************************************)
(* Claims on resolve_stream_uri (SpecResolve).                             *)
(***************************************************************************)
\* absolute: an http or https URI, as written in the manifest
IsAbsoluteUri(u) == \E scheme \in {"http", "https"} : StartsWith(u, scheme \o "://")
IsRootRelative(u) == ~IsAbsoluteUri(u) /\ u # "" /\ Head(u) = "/"
IsBareRelative(u) == ~IsAbsoluteUri(u) /\ ~IsRootRelative(u)

\* C6: resolve_stream_uri returns an absolute URI unchanged, a root-relative
\* URI prefixed with the origin's scheme and host, any other URI prefixed
\* with the origin root and a "/" separator; the result is always absolute.
C6_ResolveRules ==
    r_out # <<>> =>
        /\ IsAbsoluteUri(r_uri) => r_out[1] = r_uri
        /\ IsRootRelative(r_uri) => r_out[1] = "https://stream.udio.com" \o r_uri
        /\ IsBareRelative(r_uri) => r_out[1] = "https://stream.udio.com/" \o r_uri
        /\ IsAbsoluteUri(r_out[1])

C6_Witness ==
    /\ r_out # <<>>
    /\ r_uri = "/seg.m4s"
    /\ r_out[1] = "https://stream.udio.com/seg.m4s"

\* C7: resolving twice gives what resolving once gives, and an absolute URI
\* resolves to itself.
C7_ResolveIdempotent ==
    /\ Len(r_out) = 2 => r_out[2] = r_out[1]
    /\ (r_out # <<>> /\ IsAbsoluteUri(r_uri)) => r_out[1] = r_uri

\* a relative URI resolved twice
C7_Witness ==
    /\ Len(r_out) = 2
    /\ IsBareRelative(r_uri)
    /\ r_out[2] # r_uri

(***************************************************************************)
(* Claims on obtain_content_key (SpecKey).                                 *)
(***************************************************************************)
SessionOpened == \E i \in 1..Len(k_log) : k_log[i] = Call("open", TRUE)
CloseCalls == Cardinality({i \in 1..Len(k_log) : k_log[i].op = "close"})
LicenseParsed == \E i \in 1..Len(k_log) : k_log[i] = Call("get_keys", TRUE)

\* C1: once obtain_content_key has opened a session, the session has been
\* closed exactly once when the call returns or fails, whichever step failed.
C1_ClosedExactlyOnce ==
    (k_pc = "done" /\ SessionOpened) => CloseCalls = 1

\* the positions of the content keys of the license, and of those among
\* them whose identifier is the manifest's key id
ContentKeys == {i \in 1..Len(k_keys) : k_keys[i].type = "CONTENT"}
MatchingKeys == {i \in ContentKeys : BytesHex(k_keys[i].kid) = k_key_id}
FirstContentKey == CHOOSE i \in ContentKeys : \A j \in ContentKeys : i <= j

\* C2: with a content key whose identifier equals the manifest's key id in
\* the license, obtain_content_key returns the key of such a key; with
\* content keys but none that matches, it returns the first content key in
\* response order; what it returns is always the key of a content key.
C2_KeySelection ==
    /\ (k_pc = "done" /\ LicenseParsed /\ ContentKeys # {}) => k_out.kind = "return"
    /\ k_out.kind = "return" =>
          /\ \E i \in ContentKeys : k_out.value = BytesHex(k_keys[i].key)
          /\ MatchingKeys # {} =>
                \E i \in MatchingKeys : k_out.value = BytesHex(k_keys[i].key)
          /\ MatchingKeys = {} =>
                k_out.value = BytesHex(k_keys[FirstContentKey].key)

\* the matching key is returned although another content key, with another
\* key, comes first
C2_Witness ==
    /\ k_out.kind = "return"
    /\ MatchingKeys # {}
    /\ FirstContentKey \notin MatchingKeys
    /\ k_out.value # BytesHex(k_keys[FirstContentKey].key)

\* C3: a parsed license without any content key makes obtain_content_key
\* fail with the no-content-key error; it returns no key then.
C3_NoContentKey ==
    /\ (k_pc = "done" /\ LicenseParsed /\ ContentKeys = {})
            => k_out = Raise("NoContentKey")
    /\ k_out.kind = "return" => ContentKeys # {}

\* a license that holds signing keys only
C3_Witness ==
    /\ k_out = Raise("NoContentKey")
    /\ Len(k_keys) >= 1
    /\ ContentKeys = {}

(***************************************************************************)
(* Claims on download_drm_stream (SpecStream).                             *)
(***************************************************************************)
\* the bodies of the answers to the segment requests, in request order
RequestBodies == [i \in 1..Len(d_requests) |-> d_requests[i].resp.text]

RECURSIVE SumLen(_)
SumLen(parts) == IF parts = <<>> THEN 0 ELSE Len(Head(parts)) + SumLen(Tail(parts))

\* C8: the encrypted input of every run of the decryption engine is the body
\* fetched for the init segment followed by the bodies fetched for the URIs
\* of the manifest's media list, one request for each position of the list
\* in list order, and so as long as all the parts together.
C8_AssembledInOrder ==
    \A r \in 1..Len(ffmpeg_runs) :
        /\ Len(d_requests) = 1 + Len(segs.segment_uris)
        /\ d_requests[1].url = resolve_stream_uri(segs.init_uri)
        /\ \A i \in 1..Len(segs.segment_uris) :
              d_requests[i + 1].url = resolve_stream_uri(segs.segment_uris[i])
        /\ ffmpeg_runs[r].input = Concat(RequestBodies)
        /\ Len(ffmpeg_runs[r].input) = SumLen(RequestBodies)

\* a URI listed twice, fetched twice with different bodies
C8_Witness ==
    /\ Len(ffmpeg_runs) = 1
    /\ segs.segment_uris = <<"seg0.m4s", "seg0.m4s">>
    /\ ffmpeg_runs[1].input = "ab" \o "cde" \o "ab"

\* the requests answered with a status that is no success
FailedRequests ==
    {i \in 1..Len(d_requests) :
        ~d_requests[i].resp.err /\ RaisesForStatus(d_requests[i].resp.status)}

\* the bodies of the requests answered with success, in request order
RECURSIVE SuccessBodies(_)
SuccessBodies(reqs) ==
    IF reqs = <<>> THEN ""
    ELSE (IF Head(reqs).resp.err \/ RaisesForStatus(Head(reqs).resp.status)
          THEN "" ELSE Head(reqs).resp.text) \o SuccessBodies(Tail(reqs))

\* C9: a segment request, for the init segment or a media segment, answered
\* with a status that is no success ends download_drm_stream with the
\* segment fetch error; its body is not written to the assembled stream and
\* the decryption engine is not run.
C9_SegmentFailureFatal ==
    FailedRequests # {} =>
        /\ d_pc = "done"
        /\ d_out = Raise("HTTPError")
        /\ enc_file.content = SuccessBodies(d_requests)
        /\ ffmpeg_runs = <<>>

\* C10: when download_drm_stream has ended, on whatever path, the temporary
\* encrypted file it created does not exist.
C10_TempFileRemoved ==
    d_pc = "done" => ~enc_file.exists

\* exactly 32 hexadecimal characters, of either case
IsKey32Hex(k) == Len(k) = 32 /\ \A i \in 1..Len(k) : IsHexChar(At(k, i))

\* download_drm_stream has checked its key
KeyChecked == d_pc \notin {"idle", "validate"}

\* C11 as stated: a key that is not exactly 32 hexadecimal characters as it
\* was passed, white space around it included, makes download_drm_stream
\* fail with the key format error, and the decryption engine is not run.
C11_AnyOtherKeyRejected ==
    (KeyChecked /\ ~IsKey32Hex(d_key_arg)) =>
        /\ d_out = Raise("InvalidKeyFormat")
        /\ ffmpeg_runs = <<>>

\* C11: download_drm_stream fails with the key format error exactly when
\* the key, with the white space around it removed, is not 32 hexadecimal
\* characters of either case; it then has made no request, created no
\* temporary file and not run the decryption engine, and a key it accepts
\* reaches the engine stripped and in lower case.
C11_InvalidKeyRejected ==
    /\ KeyChecked =>
          (~IsKey32Hex(Strip(d_key_arg)) <=> d_out = Raise("InvalidKeyFormat"))
    /\ (KeyChecked /\ ~IsKey32Hex(Strip(d_key_arg))) =>
          /\ d_pc = "done"
          /\ segs = Pending
          /\ d_requests = <<>>
          /\ ~enc_file.exists
          /\ ffmpeg_runs = <<>>
    /\ \A r \in 1..Len(ffmpeg_runs) :
          ffmpeg_runs[r].key = Lower(Strip(d_key_arg))

\* a key of 32 characters, one of them no hexadecimal digit, is rejected
C11_Witness ==
    /\ Len(d_key_arg) = 32
    /\ ~IsKey32Hex(d_key_arg)
    /\ d_out = Raise("InvalidKeyFormat")

(***************************************************************************)
(* Claims on the choice of the device file (SpecCredential).               *)
(***************************************************************************)
DefaultDevice == InConfigDir("device.wvd")

\* a file name with the suffix of a device file
IsCredentialName(name) ==
    Len(name) > 4 /\ SubSeq(name, Len(name) - 3, Len(name)) = ".wvd"

\* the entries of the configuration directory the lookup can see
Listing == IF c_fs.is_dir THEN c_fs.entries ELSE <<>>

\* f is the first entry of the configuration directory with the suffix
IsFirstCredentialIn(f) ==
    \E i \in 1..Len(Listing) :
        /\ f = InConfigDir(Listing[i])
        /\ IsCredentialName(Listing[i])
        /\ \A j \in 1..(i - 1) : ~IsCredentialName(Listing[j])

NoCredentialListed == \A i \in 1..Len(Listing) : ~IsCredentialName(Listing[i])

DefaultExists == Exists(c_fs, DefaultDevice)

\* $MUSIC_DL_CDM names a file that exists
EnvironFound ==
    /\ c_fs.environ_cdm.some
    /\ c_fs.environ_cdm.value # ""
    /\ Exists(c_fs, c_fs.environ_cdm.value)

\* C20 as stated: the device file is the --cdm argument if one is given;
\* else device.wvd in the configuration directory if it exists; else the
\* first entry of that directory with the suffix .wvd; there is none only
\* if none of these yields a file.
C20_ThreeSources ==
    c_out.kind = "return" =>
        /\ c_cdm.some => c_out.value = SomePath(c_cdm.value)
        /\ (~c_cdm.some /\ DefaultExists) => c_out.value = SomePath(DefaultDevice)
        /\ (~c_cdm.some /\ ~DefaultExists /\ ~NoCredentialListed) =>
              c_out.value.some /\ IsFirstCredentialIn(c_out.value.path)
        /\ (~c_cdm.some /\ ~DefaultExists /\ NoCredentialListed) =>
              c_out.value = NoPath

\* C20: the device file is the --cdm argument if a non-empty one is given,
\* whether the file exists or not; else the file $MUSIC_DL_CDM names if the
\* variable is set, not empty, and the file exists; else device.wvd in the
\* configuration directory if it exists; else the first entry of that
\* directory with the suffix .wvd; there is none only if none of these
\* yields a file, and a source is used only if all before it yield none.
C20_CredentialPriority ==
    c_out.kind = "return" =>
        LET given == c_cdm.some /\ c_cdm.value # ""
            chosen == c_out.value
        IN  /\ given => chosen = SomePath(c_cdm.value)
            /\ (~given /\ EnvironFound) =>
                  chosen = SomePath(c_fs.environ_cdm.value)
            /\ (~given /\ ~EnvironFound /\ DefaultExists) =>
                  chosen = SomePath(DefaultDevice)
            /\ (~given /\ ~EnvironFound /\ ~DefaultExists /\ ~NoCredentialListed) =>
                  chosen.some /\ IsFirstCredentialIn(chosen.path)
            /\ (~given /\ ~EnvironFound /\ ~DefaultExists /\ NoCredentialListed) =>
                  chosen = NoPath
            /\ (~given /\ chosen.some) => Exists(c_fs, chosen.path)

\* device.wvd is chosen although another device file is listed before it
C20_Witness ==
    /\ c_out.kind = "return"
    /\ ~c_cdm.some
    /\ ~EnvironFound
    /\ Len(Listing) = 2
    /\ IsCredentialName(Listing[1])
    /\ Listing[1] # "device.wvd"
    /\ c_out.value = SomePath(DefaultDevice)

(***************************************************************************)
(* Claims on main (Spec).                                                  *)
(***************************************************************************)
\* main has dealt with the outcome of the direct attempt
Routed == pc \notin {"idle", "page", "extract", "direct", "route"}

\* the direct request was answered 403 or 404
DirectRefused ==
    /\ mp3_out.kind = "return"
    /\ ~mp3_resp.err
    /\ mp3_resp.status \in {403, 404}

\* main has gone on to the protected pipeline: it is at the choice of the
\* key, or has asked for the manifest, or has called download_drm_stream
ProtectedPipelineEntered ==
    pc = "key" \/ m_out.kind # "pending" \/ d_pc # "idle"

\* main ended right after the direct attempt
EndedAtRouting == pc = "done" /\ fatal \in {"SunoFailed", "NoSongId"}

\* C12 as stated: for every URL, a direct request answered 403 or 404 does
\* not end the run, which goes on to the protected pipeline.
C12_EveryUrlFallsBack ==
    (DirectRefused /\ Routed) => (ProtectedPipelineEntered /\ ~EndedAtRouting)

\* C12: for a URL that is not Suno's and a song whose id is known, a direct
\* request answered 403 or 404 does not end the run, which goes on to the
\* protected pipeline; for a Suno URL or a song without an id the run ends
\* there with status 1, the protected pipeline not entered.
C12_FallbackOn403Or404 ==
    (DirectRefused /\ Routed) =>
        IF detect_platform(args.url) = "suno" \/ info.id \in {"", "Unknown"}
        THEN /\ EndedAtRouting
             /\ exit_status = "1"
             /\ ~ProtectedPipelineEntered
        ELSE /\ ProtectedPipelineEntered
             /\ ~EndedAtRouting

\* a direct request answered 403, and the song saved from the stream
C12_Witness ==
    /\ DirectRefused
    /\ mp3_resp.status = 403
    /\ Len(ffmpeg_runs) = 1
    /\ exit_status = "0"

\* C13: a direct attempt that fails otherwise than by an answer 403 or 404
\* (a transport error, a status 500) ends the run with a status other than
\* 0 and no stage of the protected pipeline is started; an answer 403 or
\* 404 is the only way into the protected pipeline.
C13_OtherFailureFatal ==
    /\ mp3_out.kind = "raise" =>
          /\ ~ProtectedPipelineEntered
          /\ Routed => (pc = "done" /\ exit_status = "1")
    /\ (pc # "idle" /\ ProtectedPipelineEntered) => DirectRefused

\* a key was given on the command line (if args.key)
KeySupplied == args.key.some /\ args.key.value # ""

\* C14: in a run with a key given on the command line, no device file is
\* looked up or loaded, no session of the key system is opened and no
\* request goes to the license endpoint, however the run ends; the key
\* download_drm_stream gets is the one given.
C14_KeySkipsNegotiation ==
    (pc # "idle" /\ KeySupplied) =>
        /\ c_out.kind = "pending"
        /\ c_fs = NoFileSystem
        /\ k_pc = "idle"
        /\ k_log = <<>>
        /\ d_pc # "idle" => d_key_arg = args.key.value

\* a run with a key and a device file given that saved the song
C14_Witness ==
    /\ KeySupplied
    /\ c_cdm.some /\ c_cdm.value # ""
    /\ Len(ffmpeg_runs) = 1
    /\ exit_status = "0"

\* the lookup of the device file found none
NoCredential == c_out.kind = "return" /\ ~c_out.value.some

\* C15: a run that has its manifest, no key on the command line and no
\* device file (none given, none found) ends there with the key-required
\* condition and status 1, having printed the manifest's key id and its
\* pssh where it has one; it has sent no license request, fetched no
\* segment and not run the decryption engine; and the condition arises in
\* no other run.
C15_KeyRequired ==
    /\ (pc # "idle" /\ NoCredential) =>
          /\ ~KeySupplied
          /\ ~(c_cdm.some /\ c_cdm.value # "")
          /\ pc = "done"
          /\ fatal = "KeyRequired"
          /\ exit_status = "1"
          /\ report.key_id = ParseKeyId(m_resp.text, info.id)
          /\ report.pssh_b64 = ParsePssh(m_resp.text)
          /\ k_pc = "idle" /\ k_log = <<>>
          /\ d_pc = "idle" /\ d_requests = <<>>
          /\ ffmpeg_runs = <<>>
    /\ fatal = "KeyRequired" => (NoCredential /\ ~KeySupplied)

\* the guidance printed with the key id and the pssh of the manifest
C15_Witness ==
    /\ fatal = "KeyRequired"
    /\ m_resp.text = ProtectedDoc
    /\ report.key_id = "0a0a0a0a0a0a0a0a0a0a0a0a0a0a0a0a"
    /\ report.pssh_b64 = [some |-> TRUE, b64 |-> "AAAAIHBzc2g="]

\* the device file chosen exists
CredentialFileExists ==
    \/ c_out.value.path \in c_fs.files
    \/ c_fs.is_dir /\ \E i \in 1..Len(c_fs.entries) :
                          c_out.value.path = InConfigDir(c_fs.entries[i])

CredentialChosen == c_out.kind = "return" /\ c_out.value.some

\* C16: within a run, obtain_content_key is called, a session opened and a
\* license request sent only with a device file that exists and a manifest
\* that has a pssh; a device file chosen that does not exist ends the run
\* with the missing-credential condition, and a manifest without pssh with
\* the missing-protection-header condition, both with status 1 and before
\* any session is opened or any license request sent.
C16_NegotiationPreconditions ==
    /\ (pc # "idle" /\ (k_pc # "idle" \/ k_log # <<>>)) =>
          /\ CredentialChosen
          /\ CredentialFileExists
          /\ m_out.kind = "ok"
          /\ m_out.pssh_b64.some
    /\ (CredentialChosen /\ ~CredentialFileExists) =>
          /\ pc = "done" /\ fatal = "MissingCredential" /\ exit_status = "1"
          /\ k_pc = "idle" /\ k_log = <<>>
    /\ (CredentialChosen /\ CredentialFileExists /\ ~m_out.pssh_b64.some) =>
          /\ pc = "done" /\ fatal = "MissingProtectionHeader" /\ exit_status = "1"
          /\ k_pc = "idle" /\ k_log = <<>>
    /\ fatal = "MissingCredential" => (CredentialChosen /\ ~CredentialFileExists)
    /\ fatal = "MissingProtectionHeader" => (CredentialChosen /\ ~m_out.pssh_b64.some)

\* a device file that exists, and a manifest without pssh
C16_Witness ==
    /\ fatal = "MissingProtectionHeader"
    /\ c_out.value = SomePath("/tmp/my.wvd")
    /\ "/tmp/my.wvd" \in c_fs.files
    /\ k_log = <<>>

\* a request of the protected pipeline was made: for the manifest, to the
\* license endpoint, or for a segment
ProtectedRequestMade ==
    \/ m_out.kind # "pending"
    \/ k_log # <<>>
    \/ d_pc \notin {"idle", "validate"}

\* every segment request made was answered with success
AllSegmentsFetched ==
    \A i \in 1..Len(d_requests) :
        ~d_requests[i].resp.err /\ ~RaisesForStatus(d_requests[i].resp.status)

\* C17: the stages of a run come in the order metadata, direct attempt,
\* manifest, key negotiation, assembly, decryption, each started only when
\* the one before it has ended without error: a request of the protected
\* pipeline is made only after a direct attempt that ended without error,
\* the license endpoint is asked only with a parsed manifest, a segment is
\* requested only with the key given or obtained, and the decryption engine
\* is run only after the init segment and every media segment were fetched.
C17_StrictStageOrder ==
    pc # "idle" =>
        /\ ProtectedRequestMade => mp3_out = Return("False")
        /\ k_log # <<>> => m_out.kind = "ok"
        /\ d_requests # <<>> => (KeySupplied \/ k_out.kind = "return")
        /\ ffmpeg_runs # <<>> =>
              /\ Len(d_requests) = 1 + Len(segs.segment_uris)
              /\ AllSegmentsFetched

\* the run has ended with a status other than 0
EndedFatally == pc = "done" /\ exit_status = "1"

\* C18: when a run has ended with a fatal condition, neither an output file
\* nor a partly written one (the .mp3.part file, a partial .m4a) exists,
\* and the temporary encrypted file has been removed.
C18_NothingLeftOnFailure ==
    EndedFatally =>
        /\ mp3_dest = "absent"
        /\ mp3_part = "absent"
        /\ dest_file = "absent"
        /\ ~enc_file.exists

\* a file was saved: the direct download or the decrypted stream
OutputProduced == mp3_dest = "complete" \/ dest_file = "complete"

\* a fatal condition of the taxonomy has arisen in the run
FatalConditionArisen ==
    \/ fatal # ""
    \/ mp3_out.kind = "raise"
    \/ m_out.kind = "raise"
    \/ k_out.kind = "raise"
    \/ d_out.kind = "raise"
    \/ FailedRequests # {}

\* C19: a run ends with status 0 exactly when an output file was produced,
\* and with a status other than 0 whenever a fatal condition of the
\* taxonomy has arisen in it.
C19_ExitStatus ==
    (pc = "done") =>
        /\ exit_status = "0" <=> OutputProduced
        /\ FatalConditionArisen => exit_status = "1"

(***************************************************************************)
(* The line scanner as a machine of two states (SpecManifest).             *)
(***************************************************************************)
\* the scanner is awaiting a URI when it reads line k: an announcement came
\* before, and no URI line since
AwaitingUriAt(L, k) ==
    \E i \in 1..(k - 1) :
        /\ IsAnnouncement(L[i])
        /\ \A j \in (i + 1)..(k - 1) : ~IsUriLine(L[j])

\* the lines a scanner of two states captures
CapturedPositions(L) == {k \in 1..Len(L) : IsUriLine(L[k]) /\ AwaitingUriAt(L, k)}

CapturedLines(L) ==
    LET C == CapturedPositions(L)
    IN  [n \in 1..Cardinality(C) |->
            L[CHOOSE k \in C : Cardinality({j \in C : j < k}) = n - 1]]

\* the URI lines read while the scanner is idle
IdleUriPositions(L) == {k \in 1..Len(L) : IsUriLine(L[k]) /\ ~AwaitingUriAt(L, k)}

\* C21: the media list fetch_stream_segments builds is what a scanner of
\* two states captures: an announcement makes it await a URI, blank lines
\* and lines starting with # leave it awaiting, the first other line is
\* captured and makes it idle again, and a line read while idle is not
\* captured. So the list is never longer than the number of announcements,
\* and without any capture the call fails with the manifest error.
C21_TwoStateScanner ==
    (m_out.kind # "pending" /\ ManifestAnswered) =>
        /\ CapturedPositions(DocLines) = {} <=> m_out = Raise("ManifestError")
        /\ CapturedPositions(DocLines) # {} =>
              /\ m_out.kind = "ok"
              /\ m_out.segment_uris = CapturedLines(DocLines)
              /\ Len(m_out.segment_uris) <= Cardinality(Announcements(DocLines))

\* two announcements one after the other, a URI, and a URI read while idle:
\* one capture
C21_Witness ==
    /\ m_out.kind = "ok"
    /\ Len(DocLines) = 4
    /\ IsAnnouncement(DocLines[1]) /\ IsAnnouncement(DocLines[2])
    /\ IdleUriPositions(DocLines) = {4}
    /\ m_out.segment_uris = <<"seg0.m4s">>

(***************************************************************************)
(* The order of the segment requests (SpecStream).                         *)
(***************************************************************************)
\* request i was answered with success
RequestSucceeded(i) ==
    ~d_requests[i].resp.err /\ ~RaisesForStatus(d_requests[i].resp.status)

\* the URL of the i-th segment of the manifest, the init segment first
SegmentUrl(i) ==
    IF i = 1 THEN resolve_stream_uri(segs.init_uri)
    ELSE resolve_stream_uri(segs.segment_uris[i - 1])

\* C22: the segment requests are made one at a time in manifest order, the
\* init segment first, each position at most once; a request is made only
\* when every request before it was answered with success and its body
\* written, so that no request follows a failed one.
C22_InOrderNoRetry ==
    d_requests # <<>> =>
        /\ Len(d_requests) <= 1 + Len(segs.segment_uris)
        /\ \A i \in 1..Len(d_requests) : d_requests[i].url = SegmentUrl(i)
        /\ \A i \in 1..(Len(d_requests) - 1) : RequestSucceeded(i)
        /\ StartsWith(enc_file.content,
                      Concat([i \in 1..(Len(d_requests) - 1) |-> RequestBodies[i]]))

(***************************************************************************)
(* The life of a license session (SpecKey).                                *)
(***************************************************************************)
\* the positions of the calls of op in the log
CallsOf(op) == {i \in 1..Len(k_log) : k_log[i].op = op}

\* the call at position i comes after a call of op that succeeded
AfterSuccessOf(i, op) == \E j \in 1..(i - 1) : k_log[j] = Call(op, TRUE)

\* the license endpoint answered with a success status
LicenseAnswered ==
    /\ k_resp # Pending
    /\ ~k_resp.err
    /\ ~RaisesForStatus(k_resp.status)

\* C23: a license session only moves forward: the challenge is built on an
\* open session, the license request is sent after the challenge was built,
\* the response is parsed only if the endpoint answered with a success
\* status, the keys are read after the parsing, nothing is done on the
\* session after close, and when the call has ended a session that was
\* opened has been closed.
C23_SessionLifecycle ==
    /\ \A i \in CallsOf("get_license_challenge") : AfterSuccessOf(i, "open")
    /\ \A i \in CallsOf("post") : AfterSuccessOf(i, "get_license_challenge")
    /\ \A i \in CallsOf("parse_license") :
          AfterSuccessOf(i, "post") /\ LicenseAnswered
    /\ \A i \in CallsOf("get_keys") : AfterSuccessOf(i, "parse_license")
    /\ \A i \in CallsOf("close") : i = Len(k_log) /\ AfterSuccessOf(i, "open")
    /\ \A op \in {"open", "get_license_challenge", "post", "parse_license",
                   "get_keys", "close"} : Cardinality(CallsOf(op)) <= 1
    /\ (k_pc = "done" /\ SessionOpened) => CallsOf("close") # {}

(***************************************************************************)
(* The retrievals of the manifest within a run (Spec).                     *)
(***************************************************************************)
\* main has asked for the manifest
MainRetrieved == m_out.kind # "pending"

\* download_drm_stream has asked for the manifest
StreamRetrieved ==
    \/ segs.kind = "ok"
    \/ /\ d_pc \in {"done", "returned"}
       /\ d_out.kind = "raise"
       /\ d_out.error # "InvalidKeyFormat"

ManifestRetrievals ==
    (IF MainRetrieved THEN 1 ELSE 0) + (IF StreamRetrieved THEN 1 ELSE 0)

\* C24: within a run the manifest is retrieved at most once, and exactly
\* once when the decryption engine is run; so the key id and the pssh the
\* key was asked for with and the segments that are assembled belong to the
\* same manifest.
C24_OneManifestRetrieval ==
    pc # "idle" =>
        /\ ManifestRetrievals <= 1
        /\ ffmpeg_runs # <<>> => ManifestRetrievals = 1
        /\ (k_log # <<>> /\ segs.kind = "ok") =>
              /\ segs.key_id = k_key_id
              /\ segs.pssh_b64 = m_out.pssh_b64
              /\ segs.segment_uris = m_out.segment_uris

(***************************************************************************)
(* The way into the protected pipeline (Spec).                             *)
(***************************************************************************)
\* the URL given is one of Suno
IsSunoUrl == Contains(args.url, "suno.com")

\* the metadata has no usable id
UnknownTrackId == info.id = "" \/ info.id = "Unknown"

\* the direct attempt saved the file
DirectSaved == mp3_out.kind = "return" /\ mp3_out.value = "True"

\* main has dealt with a direct attempt that saved no file
DirectFailedAndRouted == Routed /\ mp3_out.kind # "pending" /\ ~DirectSaved

\* C25: the protected pipeline is entered only after a direct attempt that
\* did not save the file, for a URL that is not Suno's and a song with a
\* known id. For a Suno URL or an unknown id, a run whose direct attempt
\* saved no file ends with status 1 and no request for the manifest, to the
\* license endpoint or for a segment; and after a direct attempt that saved
\* the file no such request is made and the run ends with status 0.
C25_PipelineEntry ==
    pc # "idle" =>
        /\ (ProtectedPipelineEntered \/ ProtectedRequestMade) =>
              /\ mp3_out.kind # "pending"
              /\ ~DirectSaved
              /\ mp3_dest = "absent"
              /\ ~IsSunoUrl
              /\ ~UnknownTrackId
        /\ (DirectFailedAndRouted /\ (IsSunoUrl \/ UnknownTrackId)) =>
              /\ pc = "done"
              /\ exit_status = "1"
              /\ ~ProtectedRequestMade
              /\ d_requests = <<>>
        /\ (Routed /\ DirectSaved) =>
              /\ pc = "done"
              /\ exit_status = "0"
              /\ ~ProtectedRequestMade
              /\ d_requests = <<>>

\* a Suno URL, a direct attempt that raised, and the run ended with 1
C25_Witness ==
    /\ mp3_out.kind = "raise"
    /\ IsSunoUrl
    /\ ~UnknownTrackId
    /\ pc = "done"
    /\ exit_status = "1"
    /\ ~ProtectedRequestMade

=============================================================================
